---- MODULE Spec2Model ----
(***************************************************************************)
(* Model of the jambff React Admin data provider (createDataProvider):    *)
(* the query builder (getQuery, getListQuery), the response interpreter   *)
(* (getJsonResponse) and the nine operations of the dispatcher.           *)
(*                                                                         *)
(* Every operation is an async function with one suspension point, the    *)
(* transport call.  It is modelled as two steps: <Op>Call runs the        *)
(* synchronous part up to `await fetch(...)` (query building, the write   *)
(* into params.filter, the request), <Op>Done runs the rest once the      *)
(* transport has answered with a status and a body.                       *)
(*                                                                         *)
(* JavaScript values are tagged records; objects are functions from       *)
(* property names to values.                                               *)
(***************************************************************************)
EXTENDS Integers, Sequences, FiniteSets, TLC

VARIABLES
    callerFilter,  \* the filter object the caller owns and passes as params.filter
    pc,            \* "idle" | "awaiting" (request in flight) | "settled"
    op,            \* the operation called last
    params,        \* the params of the call in progress
    request,       \* the request handed to the transport by the call in progress
    response,      \* the transport's answer to the last call
    outcome        \* what the last call returned or threw

vars == <<callerFilter, pc, op, params, request, response, outcome>>

(***************************************************************************)
(* Bounds of the model.                                                    *)
(***************************************************************************)
MaxPage == 2
MaxPerPage == 2
MaxId == 2
MaxIds == 2

(***************************************************************************)
(* JavaScript values.                                                      *)
(***************************************************************************)
Undefined == [t |-> "undefined"]
Null == [t |-> "null"]
Num(n) == [t |-> "number", n |-> n]
Str(s) == [t |-> "string", s |-> s]
Obj(m) == [t |-> "object", f |-> m]
Arr(a) == [t |-> "array", a |-> a]

EmptyMap == [k \in {} |-> Undefined]

Digit(d) ==
    CASE d = 0 -> "0" [] d = 1 -> "1" [] d = 2 -> "2" [] d = 3 -> "3"
      [] d = 4 -> "4" [] d = 5 -> "5" [] d = 6 -> "6" [] d = 7 -> "7"
      [] d = 8 -> "8" [] d = 9 -> "9"

RECURSIVE NumStr(_)
\* Number.prototype.toString for the non-negative integers of the model
NumStr(n) == IF n < 10 THEN Digit(n) ELSE NumStr(n \div 10) \o Digit(n % 10)

\* the string a template literal `${v}` produces
ToStr(v) ==
    CASE v.t = "undefined" -> "undefined"
      [] v.t = "null" -> "null"
      [] v.t = "number" -> NumStr(v.n)
      [] v.t = "string" -> v.s
      [] v.t = "object" -> "[object Object]"

\* the truthiness `if (v)` tests
Truthy(v) ==
    CASE v.t = "undefined" -> FALSE
      [] v.t = "null" -> FALSE
      [] v.t = "number" -> v.n # 0
      [] v.t = "string" -> v.s # ""
      [] OTHER -> TRUE

\* v is undefined or null: reading a property of v throws a TypeError
Nullish(v) == v.t \in {"undefined", "null"}

\* v.k for a v that is not nullish
Prop(v, k) == IF v.t = "object" /\ k \in DOMAIN v.f THEN v.f[k] ELSE Undefined

\* v?.k
OptProp(v, k) == IF Nullish(v) THEN Undefined ELSE Prop(v, k)

\* Object.assign(target, source) and object spread, on property maps
Assign(target, source) ==
    [k \in DOMAIN target \cup DOMAIN source |->
        IF k \in DOMAIN source THEN source[k] ELSE target[k]]

\* the rest of a destructuring `const { k, ...rest } = m`
Omit(m, k) == [x \in DOMAIN m \ {k} |-> m[x]]

\* String.prototype.toLowerCase on the sort orders of the model
ToLowerCase(s) ==
    CASE s = "ASC" -> "asc"
      [] s = "DESC" -> "desc"
      [] s = "Desc" -> "desc"
      [] OTHER -> s

(***************************************************************************)
(* Errors.                                                                 *)
(***************************************************************************)
\* a built-in error raised by the runtime (TypeError, SyntaxError) or `new Error(m)`
PlainError(name, message) ==
    [name |-> name, message |-> message, errors |-> Undefined, marker |-> FALSE]

InvalidResponseError(statusCode, errors) ==
    [name |-> "InvalidResponseError",
     message |-> "Invalid response: " \o NumStr(statusCode),
     errors |-> errors,
     marker |-> FALSE]

DataProviderError(statusCode, errors) ==
    [name |-> "DataProviderError",
     message |-> "Invalid response: " \o NumStr(statusCode),
     errors |-> errors,
     marker |-> TRUE]

isDataProviderError(error) == error.marker

Return(v) == [kind |-> "return", value |-> v]
Throw(e) == [kind |-> "throw", error |-> e]

(***************************************************************************)
(* Query builder.                                                          *)
(***************************************************************************)
isIdObject(item) == item.t = "object" /\ "id" \in DOMAIN item.f

getQuery(meta) ==
    IF Truthy(OptProp(meta, "include"))
    THEN [include |-> Prop(meta, "include")]
    ELSE EmptyMap

\* WrapFilters with the slip of skipping entries whose value is falsy
WrapFiltersDropFalsy(filters) ==
    [k \in {x \in DOMAIN filters : Truthy(filters[x])} |->
        Str("equals:" \o ToStr(filters[k]))]

\* the wrapped filter map of getListQuery
WrapFilters(filters) ==
    [k \in DOMAIN filters |-> Str("equals:" \o ToStr(filters[k]))]

\* the entries getListQuery wraps: filter without q, then meta.filter assigned
MergedFilters(filter, meta) ==
    IF Truthy(OptProp(meta, "filter"))
    THEN Assign(Omit(filter, "q"), Prop(meta, "filter").f)
    ELSE Omit(filter, "q")

\* Offset with the slip of a one-based page taken as zero-based
OffsetOneOff(page, perPage) == page * perPage

Offset(page, perPage) == (page - 1) * perPage

\* the sort entry of the list query, once `if (Object.keys(sort))` is entered
SortEntry(sort) ==
    [k \in {ToStr(Prop(sort, "field"))} |->
        Str(ToLowerCase(Prop(sort, "order").s))]

getListQuery(p) ==
    LET base == Assign([limit |-> Num(p.pagination.perPage),
                        offset |-> Num(Offset(p.pagination.page,
                                              p.pagination.perPage))],
                       getQuery(p.meta))
        q == IF "q" \in DOMAIN p.filter THEN p.filter["q"] ELSE Undefined
        withQ(m) == IF Truthy(q) THEN Assign(m, [q |-> q]) ELSE m
        withFilter(m) ==
            Assign(m, [filter |-> Obj(WrapFilters(MergedFilters(p.filter, p.meta)))])
    IN  IF Nullish(p.sort)
        THEN \* Object.keys(undefined)
             Throw(PlainError("TypeError",
                              "Cannot convert undefined or null to object"))
        ELSE IF Prop(p.sort, "order").t # "string"
        THEN \* sort.order.toLowerCase() on a missing order
             Throw(PlainError("TypeError",
                              "Cannot read properties of undefined"))
        ELSE Return(withFilter(withQ(
                 Assign(base, [sort |-> Obj(SortEntry(p.sort))]))))

\* the id list getMany puts in its query
MapIds(ids) ==
    LET list == IF Nullish(ids) THEN <<>> ELSE ids.a
    IN  Arr([i \in 1..Len(list) |->
                IF isIdObject(list[i]) THEN list[i].f["id"] ELSE list[i]])

(***************************************************************************)
(* Response interpreter.                                                   *)
(***************************************************************************)
\* getJsonResponse with the slip of `>` for `>=` in the status test
getJsonResponseAbove400(res) ==
    IF ~res.body.decodes
    THEN Throw(PlainError("SyntaxError", "Unexpected end of JSON input"))
    ELSE IF res.status > 400
    THEN IF Nullish(res.body.value)
         THEN Throw(PlainError("TypeError",
                               "Cannot read properties of null"))
         ELSE Throw(InvalidResponseError(res.status,
                                         Prop(res.body.value, "errors")))
    ELSE Return(res.body.value)

getJsonResponse(res) ==
    IF ~res.body.decodes
    THEN \* `await res.json()` rejects
         Throw(PlainError("SyntaxError", "Unexpected end of JSON input"))
    ELSE IF res.status >= 400
    THEN IF Nullish(res.body.value)
         THEN \* data.errors on null
              Throw(PlainError("TypeError",
                               "Cannot read properties of null"))
         ELSE Throw(InvalidResponseError(res.status,
                                         Prop(res.body.value, "errors")))
    ELSE Return(res.body.value)

\* the result envelopes built from the decoded body
ListEnvelope(json) ==
    IF json.kind = "throw" THEN json
    ELSE IF Nullish(json.value)
    THEN Throw(PlainError("TypeError", "Cannot read properties of null"))
    ELSE Return([data |-> Prop(json.value, "items"),
                 total |-> Prop(json.value, "total")])

ItemsEnvelope(json) ==
    IF json.kind = "throw" THEN json
    ELSE IF Nullish(json.value)
    THEN Throw(PlainError("TypeError", "Cannot read properties of null"))
    ELSE Return([data |-> Prop(json.value, "items")])

DataEnvelope(json) ==
    IF json.kind = "throw" THEN json ELSE Return([data |-> json.value])

(***************************************************************************)
(* Inputs.                                                                 *)
(***************************************************************************)
Resource == "resource"

\* maps from a subset of keys to values
Maps(keys, values) ==
    UNION {[ks -> values] : ks \in SUBSET keys}

FilterValues == {Str(""), Str("x"), Num(0)}
FilterMaps == Maps({"q", "a"}, FilterValues)

MetaFilterMaps == Maps({"q", "a"}, {Num(1)})
Include == Obj([foo |-> [t |-> "boolean", b |-> TRUE]])
Metas ==
    {Undefined, Obj([include |-> Include])}
        \cup {Obj([filter |-> Obj(m)]) : m \in MetaFilterMaps}

Orders == {"ASC", "desc"}
Sorts ==
    {Undefined, Obj(EmptyMap)}
        \cup {Obj([field |-> Str("somefield"), order |-> Str(o)]) : o \in Orders}

Paginations == [page : 1..MaxPage, perPage : 1..MaxPerPage]

Targets == {"", "sometarget"}
Ids == 1..MaxId

IdItems == {Num(i) : i \in Ids} \cup {Obj([id |-> Num(i)]) : i \in Ids}
IdLists ==
    {Undefined} \cup {Arr(s) : s \in UNION {[1..n -> IdItems] : n \in 0..MaxIds}}

Data == Obj([foo |-> Str("bar")])

ValidationError ==
    Obj([constraint |-> Str("isNotEmpty"),
         message |-> Str("title should not be empty"),
         property |-> Str("title")])
Item == Obj([title |-> Str("Item one")])

Statuses == {200, 399, 400, 500}
Bodies ==
    {[decodes |-> FALSE, value |-> Undefined]}
        \cup {[decodes |-> TRUE, value |-> v] :
                v \in {Null,
                       Obj(EmptyMap),
                       Obj([errors |-> Arr(<<ValidationError>>)]),
                       Obj([items |-> Arr(<<Item>>), total |-> Num(1)])}}
Responses == [status : Statuses, body : Bodies]

NoParams == [none |-> TRUE]
NoRequest == [none |-> TRUE]
NoResponse == [none |-> TRUE]
NoOutcome == [kind |-> "none"]

ListOps == {"getList", "getManyReference"}
JsonOps == {"getList", "getOne", "getMany", "getManyReference",
            "create", "update", "updateMany"}
DeleteOps == {"delete", "deleteMany"}

(***************************************************************************)
(* The state machine.                                                      *)
(***************************************************************************)
Init ==
    /\ callerFilter = EmptyMap
    /\ pc = "idle"
    /\ op = "none"
    /\ params = NoParams
    /\ request = NoRequest
    /\ response = NoResponse
    /\ outcome = NoOutcome

\* the caller builds a new filter object for its next calls
NewFilter ==
    /\ pc = "idle"
    /\ \E f \in FilterMaps : callerFilter' = f
    /\ UNCHANGED <<pc, op, params, request, response, outcome>>

\* the caller's `await` of the call completes: the result or the error is
\* delivered and the caller goes on, keeping its filter object
Continue ==
    /\ pc = "settled"
    /\ pc' = "idle"
    /\ op' = "none"
    /\ params' = NoParams
    /\ request' = NoRequest
    /\ response' = NoResponse
    /\ outcome' = NoOutcome
    /\ UNCHANGED callerFilter

\* the synchronous part of a call that sends `req`
Send(o, p, req) ==
    /\ pc' = "awaiting"
    /\ op' = o
    /\ params' = p
    /\ request' = req
    /\ response' = NoResponse
    /\ outcome' = NoOutcome

\* the synchronous part of a call that throws before the transport is called
Fail(o, p, thrown) ==
    /\ pc' = "settled"
    /\ op' = o
    /\ params' = p
    /\ request' = NoRequest
    /\ response' = NoResponse
    /\ outcome' = thrown

\* the call returns or throws after the transport answered with res
Settle(res, result) ==
    /\ pc' = "settled"
    /\ params' = NoParams
    /\ request' = NoRequest
    /\ response' = res
    /\ outcome' = result
    /\ UNCHANGED <<callerFilter, op>>

Get(path, query) ==
    [method |-> "GET", path |-> path, query |-> query, body |-> Undefined]

getListCall ==
    /\ pc = "idle"
    /\ \E pg \in Paginations, s \in Sorts, m \in Metas :
         LET p == [pagination |-> pg, sort |-> s, filter |-> callerFilter,
                   meta |-> m]
             built == getListQuery(p)
         IN  IF built.kind = "throw"
             THEN Fail("getList", p, built)
             ELSE Send("getList", p, Get(<<Resource>>, built.value))
    /\ UNCHANGED callerFilter

getListDone ==
    /\ pc = "awaiting" /\ op = "getList"
    /\ \E res \in Responses : Settle(res, ListEnvelope(getJsonResponse(res)))

getOneCall ==
    /\ pc = "idle"
    /\ \E id \in Ids, m \in Metas :
         LET p == [id |-> Num(id), meta |-> m]
         IN  Send("getOne", p, Get(<<Resource, ToStr(p.id)>>, getQuery(p.meta)))
    /\ UNCHANGED callerFilter

getOneDone ==
    /\ pc = "awaiting" /\ op = "getOne"
    /\ \E res \in Responses : Settle(res, DataEnvelope(getJsonResponse(res)))

getManyCall ==
    /\ pc = "idle"
    /\ \E ids \in IdLists :
         LET p == [ids |-> ids]
         IN  Send("getMany", p, Get(<<Resource>>, [id |-> MapIds(p.ids)]))
    /\ UNCHANGED callerFilter

getManyDone ==
    /\ pc = "awaiting" /\ op = "getMany"
    /\ \E res \in Responses : Settle(res, ItemsEnvelope(getJsonResponse(res)))

\* the write `params.filter[params.target] = ...` into the caller's filter object
InjectTarget(filter, target, id) ==
    IF Truthy(Str(target))
    THEN Assign(filter, [k \in {target} |-> Str("equals:" \o ToStr(id))])
    ELSE filter

getManyReferenceCall ==
    /\ pc = "idle"
    /\ \E pg \in Paginations, s \in Sorts, m \in Metas,
          target \in Targets, id \in Ids :
         LET p == [pagination |-> pg, sort |-> s, filter |-> callerFilter,
                   meta |-> m, target |-> target, id |-> Num(id)]
             listQuery == getListQuery(p)
         IN  IF listQuery.kind = "throw"
             THEN Fail("getManyReference", p, listQuery)
                  /\ UNCHANGED callerFilter
             ELSE Send("getManyReference", p, Get(<<Resource>>, listQuery.value))
                  /\ callerFilter' = InjectTarget(callerFilter, p.target, p.id)

getManyReferenceDone ==
    /\ pc = "awaiting" /\ op = "getManyReference"
    /\ \E res \in Responses : Settle(res, ListEnvelope(getJsonResponse(res)))

createCall ==
    /\ pc = "idle"
    /\ LET p == [data |-> Data]
       IN  Send("create", p,
                [method |-> "POST", path |-> <<Resource>>, query |-> EmptyMap,
                 body |-> p.data])
    /\ UNCHANGED callerFilter

createDone ==
    /\ pc = "awaiting" /\ op = "create"
    /\ \E res \in Responses : Settle(res, DataEnvelope(getJsonResponse(res)))

updateCall ==
    /\ pc = "idle"
    /\ \E id \in Ids :
         LET p == [id |-> Num(id), data |-> Data]
         IN  Send("update", p,
                  [method |-> "PUT", path |-> <<Resource, ToStr(p.id)>>,
                   query |-> EmptyMap, body |-> p.data])
    /\ UNCHANGED callerFilter

updateDone ==
    /\ pc = "awaiting" /\ op = "update"
    /\ \E res \in Responses : Settle(res, DataEnvelope(getJsonResponse(res)))

updateManyCall ==
    /\ pc = "idle"
    /\ \E ids \in IdLists :
         LET p == [ids |-> ids, data |-> Data]
         IN  Send("updateMany", p,
                  [method |-> "PUT", path |-> <<Resource>>,
                   query |-> [id |-> p.ids], body |-> p.data])
    /\ UNCHANGED callerFilter

updateManyDone ==
    /\ pc = "awaiting" /\ op = "updateMany"
    /\ \E res \in Responses : Settle(res, ItemsEnvelope(getJsonResponse(res)))

deleteCall ==
    /\ pc = "idle"
    /\ \E id \in Ids :
         LET p == [id |-> Num(id)]
         IN  Send("delete", p,
                  [method |-> "DELETE", path |-> <<Resource, ToStr(p.id)>>,
                   query |-> EmptyMap, body |-> Undefined])
    /\ UNCHANGED callerFilter

\* what delete does with the transport's answer
DeleteResult(res) ==
    IF res.status >= 400
    THEN Throw(PlainError("Error", NumStr(res.status)))
    ELSE Return([data |-> Obj(EmptyMap)])

deleteDone ==
    /\ pc = "awaiting" /\ op = "delete"
    /\ \E res \in Responses : Settle(res, DeleteResult(res))

deleteManyCall ==
    /\ pc = "idle"
    /\ \E ids \in IdLists :
         LET p == [ids |-> ids]
         IN  Send("deleteMany", p,
                  [method |-> "DELETE", path |-> <<Resource>>,
                   query |-> [id |-> p.ids], body |-> Undefined])
    /\ UNCHANGED callerFilter

\* what deleteMany does with the transport's answer
DeleteManyResult(res, p) ==
    IF res.status >= 400
    THEN Throw(InvalidResponseError(res.status, Undefined))
    ELSE Return([data |-> p.ids])

deleteManyDone ==
    /\ pc = "awaiting" /\ op = "deleteMany"
    /\ \E res \in Responses : Settle(res, DeleteManyResult(res, params))

Next ==
    \/ NewFilter
    \/ Continue
    \/ getListCall
    \/ getListDone
    \/ getOneCall
    \/ getOneDone
    \/ getManyCall
    \/ getManyDone
    \/ getManyReferenceCall
    \/ getManyReferenceDone
    \/ createCall
    \/ createDone
    \/ updateCall
    \/ updateDone
    \/ updateManyCall
    \/ updateManyDone
    \/ deleteCall
    \/ deleteDone
    \/ deleteManyCall
    \/ deleteManyDone

Spec == Init /\ [][Next]_vars

(***************************************************************************)
(* Properties.                                                             *)
(***************************************************************************)
\* a call of op has settled on an answer of the transport
Answered(ops) == pc = "settled" /\ op \in ops /\ response # NoResponse

\* a call of op has built its query and handed the request to the transport
Sent(ops) == pc = "awaiting" /\ op \in ops

\* the envelope each JSON operation is to build from a decoded body
ExpectedEnvelope(o, body) ==
    CASE o \in {"getList", "getManyReference"} ->
            [data |-> Prop(body, "items"), total |-> Prop(body, "total")]
      [] o \in {"getMany", "updateMany"} -> [data |-> Prop(body, "items")]
      [] OTHER -> [data |-> body]

\* the error is the classified response error for this status
IsClassified(e, status) ==
    /\ e.name = "InvalidResponseError"
    /\ e.message = "Invalid response: " \o NumStr(status)

\* C1: for each of the seven operations that interpret a JSON response, when
\* the body decodes to an object: a status >= 400 makes the call throw the
\* classified response error, whose message embeds the status and whose errors
\* field is the body's errors array, and no envelope is returned; a status
\* < 400 makes the call return the envelope built from the decoded body.
C1_JsonResponseInterpreted ==
    (Answered(JsonOps) /\ response.body.decodes
        /\ response.body.value.t = "object") =>
        IF response.status >= 400
        THEN /\ outcome.kind = "throw"
             /\ IsClassified(outcome.error, response.status)
             /\ outcome.error.errors = Prop(response.body.value, "errors")
        ELSE outcome = [kind |-> "return",
                        value |-> ExpectedEnvelope(op, response.body.value)]

\* create answered 400 with a body carrying an errors array: the error thrown
\* carries that array
C1_Witness ==
    /\ Answered({"create"})
    /\ response.status = 400
    /\ response.body.decodes
    /\ Prop(response.body.value, "errors") = Arr(<<ValidationError>>)
    /\ outcome.kind = "throw"
    /\ outcome.error.errors = Arr(<<ValidationError>>)

\* C2: when the status is >= 400 and the body fails to decode, or decodes to
\* a value without an errors field (null included), the call still throws the
\* classified response error with the status and without an errors array.
C2_UndecodableErrorBodyClassified ==
    (Answered(JsonOps) /\ response.status >= 400
        /\ (~response.body.decodes
              \/ Prop(response.body.value, "errors") = Undefined)) =>
        /\ outcome.kind = "throw"
        /\ IsClassified(outcome.error, response.status)
        /\ outcome.error.errors = Undefined

\* C3: delete and deleteMany throw, on a status >= 400, the classified
\* response error the other operations throw, one the structural check
\* recognizes; on a status < 400 delete returns {data: {}}.
C3_DeleteErrorsClassified ==
    Answered(DeleteOps) =>
        IF response.status >= 400
        THEN /\ outcome.kind = "throw"
             /\ IsClassified(outcome.error, response.status)
             /\ isDataProviderError(outcome.error)
        ELSE op = "delete" => outcome = [kind |-> "return",
                                         value |-> [data |-> Obj(EmptyMap)]]

\* C4: the query getManyReference sends for a non-empty target holds the
\* filter entry filter[target] = equals:<id>.
C4_ReferenceTargetInQuery ==
    (Sent({"getManyReference"}) /\ params.target # "") =>
        LET sent == request.query["filter"].f
        IN  /\ params.target \in DOMAIN sent
            /\ sent[params.target] = Str("equals:" \o ToStr(params.id))

\* C5: the id list getMany, updateMany and deleteMany put in the query is the
\* list of raw identifiers in input order, an object being replaced by its id.
C5_BulkIdsAreRaw ==
    (Sent({"getMany", "updateMany", "deleteMany"}) /\ params.ids.t = "array") =>
        request.query["id"] =
            [t |-> "array",
             a |-> [i \in 1..Len(params.ids.a) |->
                       IF params.ids.a[i].t = "object"
                       THEN params.ids.a[i].f["id"]
                       ELSE params.ids.a[i]]]

\* the entries a list query is to wrap: filter without q, meta.filter on top
ExpectedEntries(p) ==
    LET own == [k \in DOMAIN p.filter \ {"q"} |-> p.filter[k]]
        over == IF p.meta.t = "object" /\ "filter" \in DOMAIN p.meta.f
                THEN p.meta.f["filter"].f
                ELSE EmptyMap
    IN  [k \in DOMAIN own \cup DOMAIN over |->
            IF k \in DOMAIN over THEN over[k] ELSE own[k]]

C7_NoReservedKeyInFilter ==
    Sent(ListOps) => "q" \notin DOMAIN request.query["filter"].f

\* a sort specification that names no sort: absent or empty
NoSortGiven(sort) == sort.t \in {"undefined", "null"} \/ sort = Obj(EmptyMap)

\* C8: with no sort given the list query is built and has no sort key; with
\* a sort field given, sort is {field: lower-cased order}.
C8_SortOmittedWhenAbsent ==
    (op \in ListOps /\ params # NoParams) =>
        IF NoSortGiven(params.sort)
        THEN pc = "awaiting" /\ "sort" \notin DOMAIN request.query
        ELSE /\ pc = "awaiting"
             /\ request.query["sort"] =
                  Obj([k \in {params.sort.f["field"].s} |->
                         Str(IF params.sort.f["order"].s \in {"ASC", "asc"}
                             THEN "asc" ELSE "desc")])

\* C9: for page >= 1 and perPage >= 1 the list query has limit = perPage and
\* offset = (page - 1) * perPage, a non-negative multiple of perPage.
C9_LimitAndOffset ==
    Sent(ListOps) =>
        LET page == params.pagination.page
            perPage == params.pagination.perPage
        IN  /\ request.query["limit"] = [t |-> "number", n |-> perPage]
            /\ request.query["offset"] =
                 [t |-> "number", n |-> (page - 1) * perPage]
            /\ request.query["offset"].n >= 0
            /\ request.query["offset"].n % perPage = 0

\* a list query for a page after the first
C9_Witness ==
    /\ Sent(ListOps)
    /\ params.pagination.page = MaxPage
    /\ params.pagination.perPage = MaxPerPage
    /\ request.query["offset"].n = (MaxPage - 1) * MaxPerPage
    /\ request.query["offset"].n > 0

\* C10: no step of an operation modifies the caller's params object: the
\* caller's filter map changes only when the caller replaces it.
C10_ParamsNeverModified ==
    [][(pc # "idle" \/ pc' # "idle") => callerFilter' = callerFilter]_vars
====
